---- MODULE Spec2Model ----
(***************************************************************************)
(* A model of the WASM-4 raycaster (src/src/main.rs): the bit map and its  *)
(* occupancy test, the hand-rolled trigonometry, State::update with its    *)
(* collision rollback, the two grid-line ray marches and State::get_view.  *)
(*                                                                         *)
(* Numbers.  The program computes in f32.  Here an f32 is a fixed-point    *)
(* integer counting thousandths (ONE = 1.0), or one of four special        *)
(* values: INFINITY, NEG_INFINITY, NAN and NEG_ZERO (the zero with the     *)
(* sign bit set, which decides the sign of a quotient x / 0).  Every       *)
(* arithmetic operator rounds its exact result to the nearest thousandth   *)
(* and follows IEEE-754 for the special values.                            *)
(***************************************************************************)
EXTENDS Integers, Sequences, FiniteSets, TLC

VARIABLES
    overflow_checks, \* build profile: TRUE when integer overflow checks are compiled in
    panicked,        \* TRUE once the panic handler has trapped the module
    player_x,        \* STATE.player_x
    player_y,        \* STATE.player_y
    player_angle,    \* STATE.player_angle
    args,            \* SpecStep: the (up, down, left, right) of the call under study
    frame,           \* number of State::update calls made so far
    qx, qy,          \* the point of the latest point_in_wall lookup
    qres,            \* what that lookup did: "none", "true", "false" or "panic"
    idx,             \* get_view: the number of columns already written
    angle,           \* get_view: the ray angle of the latest column
    h_cast, v_cast,  \* get_view: the two marches of the latest column
    min_dist,        \* get_view: the distance chosen for the latest column
    wall             \* get_view: the entry written for the latest column

vars == <<overflow_checks, panicked, player_x, player_y, player_angle, args,
          frame, qx, qy, qres, idx, angle, h_cast, v_cast, min_dist, wall>>

(***************************************************************************)
(* Bounds of the exploration.                                              *)
(***************************************************************************)
\* State::update calls explored from the default pose.
MaxFrames == 13
\* ... each turning the heading no further than MaxTurns steps from 0.
MaxTurns == 2
\* SpecStep headings are every fifth multiple of STEP_SIZE, 5 * k * STEP_SIZE
\* for k in -MaxFifths .. MaxFifths (14 is a half turn: 70 * 0.045 > pi).
MaxFifths == 14
\* SpecMap probes points up to ProbeCells cells outside the grid on each side.
ProbeCells == 3
\* SpecView headings are every second multiple of STEP_SIZE, 2 * k * STEP_SIZE
\* for k in -MaxSweep .. MaxSweep (35 is a full turn: 70 * 0.045 > pi).
MaxSweep == 35

(***************************************************************************)
(* f32                                                                     *)
(***************************************************************************)
ONE == 1000
FINITE_MAX == 1000000000
INFINITY == FINITE_MAX + 1
NEG_INFINITY == -INFINITY
NAN == INFINITY + 1
NEG_ZERO == NAN + 1

IsNaN(a) == a = NAN
IsInf(a) == a = INFINITY \/ a = NEG_INFINITY
IsFinite(a) == ~IsNaN(a) /\ ~IsInf(a)
\* An ordinary number: finite, and not the negative zero.
Ord(a) == a >= -FINITE_MAX /\ a <= FINITE_MAX
\* The numeric value of a finite f32.
Val(a) == IF a = NEG_ZERO THEN 0 ELSE a
\* The sign bit, as +1 or -1 (a NaN's sign is never used).
Sign(a) == IF a = NEG_ZERO \/ a = NEG_INFINITY THEN -1
           ELSE IF a = INFINITY \/ a = NAN THEN 1
           ELSE IF a < 0 THEN -1 ELSE 1
Abs(n) == IF n < 0 THEN -n ELSE n
\* A signed zero, a signed infinity.
Zero(s) == IF s < 0 THEN NEG_ZERO ELSE 0
Inf(s) == IF s < 0 THEN NEG_INFINITY ELSE INFINITY
\* n / d for naturals, rounded to nearest.
RoundDiv(n, d) == (n \div d) + (IF 2 * (n % d) >= d THEN 1 ELSE 0)
\* The f32 of sign s and magnitude m (a natural, in thousandths).
Pack(s, m) == IF m > FINITE_MAX THEN Inf(s)
              ELSE IF m = 0 THEN Zero(s)
              ELSE s * m

fabsf(a) == IF Ord(a) THEN Abs(a)
            ELSE IF IsNaN(a) THEN NAN
            ELSE IF IsInf(a) THEN INFINITY
            ELSE 0

Neg(a) == IF Ord(a) /\ a # 0 THEN -a
          ELSE IF IsNaN(a) THEN NAN
          ELSE IF IsInf(a) THEN Inf(-Sign(a))
          ELSE Zero(-Sign(a))

\* a + b when one of them is a NaN, an infinity or the negative zero.
AddSpecial(a, b) ==
    IF IsNaN(a) \/ IsNaN(b) THEN NAN
    ELSE IF IsInf(a) THEN (IF IsInf(b) /\ b # a THEN NAN ELSE a)
    ELSE IF IsInf(b) THEN b
    ELSE IF a = NEG_ZERO THEN b
    ELSE a

Add(a, b) ==
    IF Ord(a) /\ Ord(b)
    THEN LET s == a + b
         IN  IF Ord(s) THEN s ELSE Inf(s)
    ELSE AddSpecial(a, b)

Sub(a, b) == Add(a, Neg(b))

\* a * b when one of them is zero, a NaN or an infinity.
MulSpecial(a, b) ==
    IF IsNaN(a) \/ IsNaN(b) THEN NAN
    ELSE IF IsInf(a) \/ IsInf(b)
    THEN (IF Val(a) = 0 \/ Val(b) = 0 THEN NAN ELSE Inf(Sign(a) * Sign(b)))
    ELSE Zero(Sign(a) * Sign(b))

Mul(a, b) ==
    IF Ord(a) /\ Ord(b) /\ a # 0 /\ b # 0
    THEN LET m == Abs(a)
             n == Abs(b)
             s == IF (a < 0) = (b < 0) THEN 1 ELSE -1
         IN  \* a product too large for the format rounds to infinity
             IF m > FINITE_MAX \div n THEN Inf(s)
             ELSE Pack(s, RoundDiv(m * n, ONE))
    ELSE MulSpecial(a, b)

\* a / b when one of them is zero, a NaN or an infinity.
DivSpecial(a, b) ==
    IF IsNaN(a) \/ IsNaN(b) THEN NAN
    ELSE IF IsInf(a) THEN (IF IsInf(b) THEN NAN ELSE Inf(Sign(a) * Sign(b)))
    ELSE IF IsInf(b) THEN Zero(Sign(a) * Sign(b))
    ELSE IF Val(b) = 0
    THEN (IF Val(a) = 0 THEN NAN ELSE Inf(Sign(a) * Sign(b)))
    ELSE Zero(Sign(a) * Sign(b))

Div(a, b) ==
    IF Ord(a) /\ Ord(b) /\ a # 0 /\ b # 0
    THEN LET m == Abs(a)
             n == Abs(b)
             s == IF (a < 0) = (b < 0) THEN 1 ELSE -1
         IN  IF m > FINITE_MAX \div ONE THEN Inf(s)
             ELSE Pack(s, RoundDiv(m * ONE, n))
    ELSE DivSpecial(a, b)

\* a < b on f32: false whenever either side is a NaN.
Lt(a, b) ==
    IF Ord(a) /\ Ord(b) THEN a < b
    ELSE IF IsNaN(a) \/ IsNaN(b) THEN FALSE
    ELSE IF a = NEG_INFINITY THEN b # NEG_INFINITY
    ELSE IF a = INFINITY THEN FALSE
    ELSE IF b = NEG_INFINITY THEN FALSE
    ELSE IF b = INFINITY THEN TRUE
    ELSE Val(a) < Val(b)

floorf(a) == IF Ord(a) THEN (a \div ONE) * ONE ELSE a

ceilf(a) == IF Ord(a)
            THEN LET c == -((-a) \div ONE) * ONE
                 IN  IF c = 0 /\ a < 0 THEN NEG_ZERO ELSE c
            ELSE a

\* The integer square root of n, by bisection on lo .. hi.
RECURSIVE ISqrt(_, _, _)
ISqrt(n, lo, hi) ==
    IF lo >= hi THEN lo
    ELSE IF (lo + hi + 1) \div 2 <= n \div ((lo + hi + 1) \div 2)
    THEN ISqrt(n, (lo + hi + 1) \div 2, hi)
    ELSE ISqrt(n, lo, (lo + hi + 1) \div 2 - 1)

\* No square root of a number up to FINITE_MAX exceeds this.
SqrtCeiling == ISqrt(FINITE_MAX, 0, FINITE_MAX) + 1

\* sqrt(a / ONE) * ONE is sqrt(a * ONE), or sqrt(a) * sqrt(ONE) when a * ONE
\* is too large to write down.
sqrtf(a) == IF Ord(a)
            THEN (IF a < 0 THEN NAN
                  ELSE IF a <= FINITE_MAX \div ONE
                  THEN ISqrt(a * ONE, 0, SqrtCeiling)
                  ELSE RoundDiv(ISqrt(a, 0, SqrtCeiling) * ISqrt(ONE * ONE * ONE, 0, SqrtCeiling), ONE))
            ELSE IF a = NEG_INFINITY THEN NAN
            ELSE a

\* `v as usize` on wasm32: saturating, NaN to 0.  usize::MAX is 2^32 - 1; the
\* largest integer here, 2^31 - 1, has the same low four bits and is likewise
\* past every row index and every shift width.
USIZE_MAX == 2147483647
AsUsize(a) == IF IsNaN(a) THEN 0
              ELSE IF a = INFINITY THEN USIZE_MAX
              ELSE IF a = NEG_INFINITY \/ Val(a) < 0 THEN 0
              ELSE Val(a) \div ONE

\* `v as i32`: saturating, NaN to 0, truncating toward zero.
I32_MAX == 2147483647
AsI32(a) == IF IsNaN(a) THEN 0
            ELSE IF a = INFINITY THEN I32_MAX
            ELSE IF a = NEG_INFINITY THEN -I32_MAX - 1
            ELSE Sign(a) * (Abs(Val(a)) \div ONE)

(***************************************************************************)
(* Constants                                                               *)
(***************************************************************************)
PI == 3142
FRAC_PI_2 == 1571
TAU == 6284
STEP_SIZE == 45
FIVE_PI_SQUARED == Mul(5 * ONE, Mul(PI, PI))
FOV == Div(PI, 2700)
HALF_FOV == Mul(FOV, 500)
ANGLE_STEP == Div(FOV, 160 * ONE)
WALL_HEIGHT == 100000
COLUMNS == 160
DRAW_DISTANCE == 256

(***************************************************************************)
(* Map                                                                     *)
(***************************************************************************)
\* The eight u16 rows, bit i of row j being the cell (i, j).
MAP == << 65535,    \* 0b1111111111111111
          33413,    \* 0b1000001010000101
          47157,    \* 0b1011100000110101
          36497,    \* 0b1000111010010001
          41719,    \* 0b1010001011110111
          47713,    \* 0b1011101001100001
          34829,    \* 0b1000100000001101
          65535 >>  \* 0b1111111111111111
ROWS == 8
ROW_BITS == 16

\* line & (1 << s) != 0, for a shift s below the width.
BitSet(line, s) == (line \div (2 ^ s)) % 2 = 1

\* `0b1 << x as usize` overflows the u16 when the column is 16 or more.  With
\* overflow checks compiled in that is a panic; the row must exist for the
\* shift to be evaluated at all.
ShiftOverflows(x, y) == AsUsize(y) < ROWS /\ AsUsize(x) >= ROW_BITS

\* A variant of point_in_wall with the axes exchanged: x picks the row and y
\* the bit.
point_in_wall_transposed(x, y) ==
    LET row == AsUsize(x)
    IN  IF row < ROWS
        THEN BitSet(MAP[row + 1], AsUsize(y) % ROW_BITS)
        ELSE TRUE

\* What point_in_wall returns when it returns.  Without overflow checks the
\* shift amount is taken modulo the width of the u16.
point_in_wall(x, y) ==
    LET row == AsUsize(y)
    IN  IF row < ROWS
        THEN BitSet(MAP[row + 1], AsUsize(x) % ROW_BITS)
        ELSE TRUE

\* point_in_wall under the build profile: "true", "false" or "panic".
Lookup(x, y, checks) ==
    IF checks /\ ShiftOverflows(x, y) THEN "panic"
    ELSE IF point_in_wall(x, y) THEN "true" ELSE "false"

(***************************************************************************)
(* Trigonometry                                                            *)
(***************************************************************************)
sinf_imp(x) ==
    Div(Mul(Mul(16 * ONE, x), Sub(PI, x)),
        Sub(FIVE_PI_SQUARED, Mul(Mul(4 * ONE, x), Sub(PI, x))))

\* x - floor(x / TAU) * TAU, the quotient x / TAU kept exact.
Reduce(x) == Val(x) - (Val(x) \div TAU) * TAU

\* sinf on a reduced argument.
sinf_reduced(x) == IF Lt(PI, x) THEN Neg(sinf_imp(Sub(x, PI))) ELSE sinf_imp(x)

\* sinf_reduced tabulated over one period, so that it is computed once.
SinTable == [x \in 0 .. (TAU - 1) |-> sinf_reduced(x)] @@ <<>>

sinf(x) == SinTable[Reduce(x)]

cosf(x) == sinf(Add(x, FRAC_PI_2))

tanf(x) == Div(sinf(x), cosf(x))

distance(a, b) == sqrtf(Add(Mul(a, a), Mul(b, b)))

(***************************************************************************)
(* State::update                                                           *)
(***************************************************************************)
Flags == [up : BOOLEAN, down : BOOLEAN, left : BOOLEAN, right : BOOLEAN]
NoFlags == [up |-> FALSE, down |-> FALSE, left |-> FALSE, right |-> FALSE]

\* (x, y) displaced by +d when `up` and by -d when `down`, d = (dx, dy).
Displace(x, y, dx, dy, f) ==
    << IF f.down THEN Sub(IF f.up THEN Add(x, dx) ELSE x, dx)
                 ELSE IF f.up THEN Add(x, dx) ELSE x,
       IF f.down THEN Sub(IF f.up THEN Add(y, dy) ELSE y, dy)
                 ELSE IF f.up THEN Add(y, dy) ELSE y >>

\* A variant of Tentative with the sign of the y displacement lost.
TentativePlusSin(x, y, a, f) ==
    Displace(x, y, Mul(cosf(a), STEP_SIZE), Mul(sinf(a), STEP_SIZE), f)

\* The position after the `up` and `down` blocks, before the collision test.
Tentative(x, y, a, f) ==
    Displace(x, y, Mul(cosf(a), STEP_SIZE), Mul(Neg(sinf(a)), STEP_SIZE), f)

\* The heading after the `right` and `left` blocks.
Turned(a, f) ==
    LET a1 == IF f.right THEN Sub(a, STEP_SIZE) ELSE a
    IN  IF f.left THEN Add(a1, STEP_SIZE) ELSE a1

(***************************************************************************)
(* The ray marches                                                         *)
(***************************************************************************)
\* The result of a march: the final relative offset (x, y), the number of
\* extensions made, why the loop was left ("wall", "budget", or "panic" when
\* the lookup panicked), and the distance returned.
Cast(nx, ny, i, why) ==
    [x |-> nx, y |-> ny, steps |-> i, exit |-> why,
     dist |-> IF why = "panic" THEN NAN ELSE distance(nx, ny)]

\* No march made.
NoCast == [x |-> 0, y |-> 0, steps |-> 0, exit |-> "none", dist |-> 0]

\* floor(a / PI) % 2.0 != 0.0, the quotient a / PI kept exact.
OddHalfTurns(a) == (Val(a) \div PI) % 2 # 0

\* The absolute point sampled by the horizontal march at relative (nx, ny).
HSample(px, py, up, nx, ny) ==
    << Add(nx, px), IF up THEN Add(ny, py) ELSE Sub(Add(ny, py), ONE) >>

RECURSIVE HMarch(_, _, _, _, _, _, _, _, _)
\* A variant of HLooked that leaves the loop after the extension instead of
\* before it.
HLookedLate(i, nx, ny, px, py, up, dx, dy, checks, r) ==
    IF r = "panic" THEN Cast(nx, ny, i, "panic")
    ELSE IF r = "true" THEN Cast(Add(nx, dx), Add(ny, dy), i + 1, "wall")
    ELSE HMarch(i + 1, Add(nx, dx), Add(ny, dy), px, py, up, dx, dy, checks)

HLooked(i, nx, ny, px, py, up, dx, dy, checks, r) ==
    IF r = "panic" THEN Cast(nx, ny, i, "panic")
    ELSE IF r = "true" THEN Cast(nx, ny, i, "wall")
    ELSE HMarch(i + 1, Add(nx, dx), Add(ny, dy), px, py, up, dx, dy, checks)

HProbe(i, nx, ny, px, py, up, dx, dy, checks, c) ==
    HLooked(i, nx, ny, px, py, up, dx, dy, checks, Lookup(c[1], c[2], checks))

HMarch(i, nx, ny, px, py, up, dx, dy, checks) ==
    IF i = DRAW_DISTANCE THEN Cast(nx, ny, i, "budget")
    ELSE HProbe(i, nx, ny, px, py, up, dx, dy, checks, HSample(px, py, up, nx, ny))

HFirstY(py, up) == IF up THEN Sub(ceilf(py), py) ELSE Sub(floorf(py), py)
HFirstX(py, up, t) == Div(Neg(HFirstY(py, up)), t)
HDy(up) == IF up THEN ONE ELSE -ONE
HDx(up, t) == Div(Neg(HDy(up)), t)

HFrom(px, py, up, t, checks) ==
    HMarch(0, HFirstX(py, up, t), HFirstY(py, up), px, py, up,
           HDx(up, t), HDy(up), checks)

horizontal_intersection(px, py, a, checks) ==
    HFrom(px, py, OddHalfTurns(a), tanf(a), checks)

\* The absolute point sampled by the vertical march at relative (nx, ny).
VSample(px, py, right, nx, ny) ==
    << IF right THEN Add(nx, px) ELSE Sub(Add(nx, px), ONE), Add(ny, py) >>

RECURSIVE VMarch(_, _, _, _, _, _, _, _, _)
VLooked(i, nx, ny, px, py, right, dx, dy, checks, r) ==
    IF r = "panic" THEN Cast(nx, ny, i, "panic")
    ELSE IF r = "true" THEN Cast(nx, ny, i, "wall")
    ELSE VMarch(i + 1, Add(nx, dx), Add(ny, dy), px, py, right, dx, dy, checks)

VProbe(i, nx, ny, px, py, right, dx, dy, checks, c) ==
    VLooked(i, nx, ny, px, py, right, dx, dy, checks, Lookup(c[1], c[2], checks))

VMarch(i, nx, ny, px, py, right, dx, dy, checks) ==
    IF i = DRAW_DISTANCE THEN Cast(nx, ny, i, "budget")
    ELSE VProbe(i, nx, ny, px, py, right, dx, dy, checks, VSample(px, py, right, nx, ny))

VFirstX(px, right) == IF right THEN Sub(ceilf(px), px) ELSE Sub(floorf(px), px)
VFirstY(px, right, t) == Mul(Neg(t), VFirstX(px, right))
VDx(right) == IF right THEN ONE ELSE -ONE
VDy(right, t) == Mul(VDx(right), Neg(t))

VFrom(px, py, right, t, checks) ==
    VMarch(0, VFirstX(px, right), VFirstY(px, right, t), px, py, right,
           VDx(right), VDy(right, t), checks)

vertical_intersection(px, py, a, checks) ==
    VFrom(px, py, OddHalfTurns(Sub(a, FRAC_PI_2)), tanf(a), checks)

(***************************************************************************)
(* State::get_view                                                         *)
(***************************************************************************)
\* A variant of RayAngle that sweeps from the right edge to the left.
RayAngleLeftward(heading, i) == Add(Sub(heading, HALF_FOV), Mul(i * ONE, ANGLE_STEP))

\* The ray angle of column i.
RayAngle(heading, i) == Sub(Add(heading, HALF_FOV), Mul(i * ONE, ANGLE_STEP))

\* A variant of Nearest that gives a tie to the horizontal march.
NearestTieToH(h_dist, v_dist) ==
    IF Lt(v_dist, h_dist) THEN <<v_dist, TRUE>> ELSE <<h_dist, FALSE>>

\* (min_dist, shadow) of the two distances.
Nearest(h_dist, v_dist) ==
    IF Lt(h_dist, v_dist) THEN <<h_dist, FALSE>> ELSE <<v_dist, TRUE>>

\* The wall height for a distance d along a ray at angle a.
Height(d, a, heading) == AsI32(Div(WALL_HEIGHT, Mul(d, cosf(Sub(a, heading)))))

(***************************************************************************)
(* Initial states                                                          *)
(***************************************************************************)
ViewIdle == /\ idx = 0
            /\ angle = 0
            /\ h_cast = NoCast
            /\ v_cast = NoCast
            /\ min_dist = 0
            /\ wall = <<0, FALSE>>

MapIdle == /\ qx = 0
           /\ qy = 0
           /\ qres = "none"

\* The program as loaded: the default pose, under either build profile.
Init == /\ overflow_checks \in BOOLEAN
        /\ panicked = FALSE
        /\ player_x = 1500
        /\ player_y = 1500
        /\ player_angle = 0
        /\ args = NoFlags
        /\ frame = 0
        /\ MapIdle
        /\ ViewIdle

(***************************************************************************)
(* Spec: calls of State::update from the default pose                      *)
(***************************************************************************)
\* A variant of Commit without the rollback.
CommitNoRollback(a, t, r) ==
    /\ frame' = frame + 1
    /\ qx' = t[1]
    /\ qy' = t[2]
    /\ qres' = r
    /\ player_angle' = a
    /\ panicked' = (r = "panic")
    /\ player_x' = t[1]
    /\ player_y' = t[2]
    /\ UNCHANGED <<overflow_checks, args, idx, angle, h_cast, v_cast, min_dist, wall>>

\* A variant of Commit that rolls back x alone, so that the player slides
\* along the wall in y.
CommitSlide(a, t, r) ==
    /\ frame' = frame + 1
    /\ qx' = t[1]
    /\ qy' = t[2]
    /\ qres' = r
    /\ player_angle' = a
    /\ panicked' = (r = "panic")
    /\ player_x' = IF r = "true" THEN player_x ELSE t[1]
    /\ player_y' = t[2]
    /\ UNCHANGED <<overflow_checks, args, idx, angle, h_cast, v_cast, min_dist, wall>>

\* The end of State::update: the heading a is kept, and the tentative position
\* t too unless the lookup r found it in a wall.  (A panic in the lookup comes
\* before the rollback, so it leaves the tentative position in place.)
Commit(a, t, r) ==
    /\ frame' = frame + 1
    /\ qx' = t[1]
    /\ qy' = t[2]
    /\ qres' = r
    /\ player_angle' = a
    /\ panicked' = (r = "panic")
    /\ player_x' = IF r = "true" THEN player_x ELSE t[1]
    /\ player_y' = IF r = "true" THEN player_y ELSE t[2]
    /\ UNCHANGED <<overflow_checks, args, idx, angle, h_cast, v_cast, min_dist, wall>>

Collide(a, t) == Commit(a, t, Lookup(t[1], t[2], overflow_checks))

\* One call of State::update.
Update(f) ==
    /\ ~panicked
    /\ Collide(Turned(player_angle, f),
               Tentative(player_x, player_y, player_angle, f))

Next == \E f \in Flags :
            /\ frame < MaxFrames
            /\ Abs(Turned(player_angle, f)) <= MaxTurns * STEP_SIZE
            /\ Update(f)

Spec == Init /\ [][Next]_vars

(***************************************************************************)
(* SpecStep: one call of State::update, from a range of poses and flags    *)
(***************************************************************************)
\* Offsets within a cell: either side of one step from each face, and the middle.
StepOffsets == {44, 45, 46, 500, 954, 955, 956}
\* The corner cell of the default pose, and a cell open on three sides.
StepCells == { <<1, 1>>, <<3, 3>> }
StepPositions ==
    { <<c[1] * ONE + ox, c[2] * ONE + oy>> : c \in StepCells,
                                            ox \in StepOffsets, oy \in StepOffsets }
\* 35 * STEP_SIZE is a quarter turn to the nearest step: every fifth heading
\* takes in the four axis directions and the diagonals between them.
StepHeadings == {5 * k * STEP_SIZE : k \in (-MaxFifths) .. MaxFifths}

InitStep == /\ overflow_checks \in BOOLEAN
            /\ panicked = FALSE
            /\ \E p \in StepPositions : player_x = p[1] /\ player_y = p[2]
            /\ player_angle \in StepHeadings
            /\ args \in Flags
            /\ frame = 0
            /\ MapIdle
            /\ ViewIdle

NextStep == frame = 0 /\ Update(args)

SpecStep == InitStep /\ [][NextStep]_vars

(***************************************************************************)
(* SpecMap: point_in_wall applied to points in and around the grid         *)
(***************************************************************************)
\* Half-cell steps from ProbeCells cells before the grid to ProbeCells cells
\* past a grid of `cells` cells, and the special values.
ProbeCoords(cells) ==
    {c * (ONE \div 2) : c \in (-2 * ProbeCells) .. (2 * (cells + ProbeCells))}
        \cup {INFINITY, NEG_INFINITY, NAN, NEG_ZERO}

InitMap == /\ overflow_checks \in BOOLEAN
           /\ panicked = FALSE
           /\ player_x = 1500
           /\ player_y = 1500
           /\ player_angle = 0
           /\ args = NoFlags
           /\ frame = 0
           /\ qx \in ProbeCoords(ROW_BITS)
           /\ qy \in ProbeCoords(ROWS)
           /\ qres = "none"
           /\ ViewIdle

Probe ==
    /\ qres = "none"
    /\ qres' = Lookup(qx, qy, overflow_checks)
    /\ panicked' = (Lookup(qx, qy, overflow_checks) = "panic")
    /\ UNCHANGED <<overflow_checks, player_x, player_y, player_angle, args,
                   frame, qx, qy, idx, angle, h_cast, v_cast, min_dist, wall>>

NextMap == Probe

SpecMap == InitMap /\ [][NextMap]_vars

(***************************************************************************)
(* SpecView: State::get_view, column by column, from a range of poses      *)
(***************************************************************************)
ViewPositions == { <<1500, 1500>>, <<3000, 3500>>, <<8500, 2000>>, <<14250, 6750>> }
ViewHeadings == {2 * k * STEP_SIZE : k \in (-MaxSweep) .. MaxSweep}

InitView == /\ overflow_checks \in BOOLEAN
            /\ panicked = FALSE
            /\ \E p \in ViewPositions : player_x = p[1] /\ player_y = p[2]
            /\ player_angle \in ViewHeadings
            /\ args = NoFlags
            /\ frame = 0
            /\ MapIdle
            /\ ViewIdle

\* The end of one iteration of the loop of get_view.
Write(a, h, v, n) ==
    /\ angle' = a
    /\ h_cast' = h
    /\ v_cast' = IF h.exit = "panic" THEN NoCast ELSE v
    /\ panicked' = (h.exit = "panic" \/ v.exit = "panic")
    /\ min_dist' = IF h.exit = "panic" \/ v.exit = "panic" THEN min_dist ELSE n[1]
    /\ wall' = IF h.exit = "panic" \/ v.exit = "panic" THEN wall
               ELSE <<Height(n[1], a, player_angle), n[2]>>
    /\ idx' = IF h.exit = "panic" \/ v.exit = "panic" THEN idx ELSE idx + 1
    /\ UNCHANGED <<overflow_checks, player_x, player_y, player_angle, args,
                   frame, qx, qy, qres>>

Choose(a, h, v) == Write(a, h, v, Nearest(h.dist, v.dist))

CastBoth(a) ==
    Choose(a,
           horizontal_intersection(player_x, player_y, a, overflow_checks),
           vertical_intersection(player_x, player_y, a, overflow_checks))

Column ==
    /\ ~panicked
    /\ idx < COLUMNS
    /\ CastBoth(RayAngle(player_angle, idx))

NextView == Column

SpecView == InitView /\ [][NextView]_vars

(***************************************************************************)
(* Properties                                                              *)
(***************************************************************************)
\* The open interior of the reference map.
Interior(x, y) == /\ Ord(x) /\ Ord(y)
                  /\ ONE <= x /\ x < (ROW_BITS - 1) * ONE
                  /\ ONE <= y /\ y < (ROWS - 1) * ONE

\* A point whose column and row are both declared: column 0..15, row 0..7.
InGrid(x, y) == /\ Ord(x) /\ Ord(y)
                /\ 0 <= x /\ x < ROW_BITS * ONE
                /\ 0 <= y /\ y < ROWS * ONE

\* The cell at column col, row `row` of the grid is solid.
Solid(col, row) == BitSet(MAP[row + 1], col)

\* The point (x, y) lies in a solid cell of the map, the cells outside the
\* grid counted as solid.
SolidAt(x, y) == ~InGrid(x, y) \/ Solid(x \div ONE, y \div ONE)

\* C1: after any sequence of State::update calls from the default pose, the
\* player's position is not inside a solid cell of the map.
C1_NeverInWall == ~SolidAt(player_x, player_y)

\* A move has just been rolled back, and the player stands in open space.
C1_Witness == /\ frame > 0
              /\ qres = "true"
              /\ <<qx, qy>> # <<player_x, player_y>>
              /\ ~SolidAt(player_x, player_y)

\* C10: after any sequence of State::update calls from the default pose the
\* player is in the interior, 1 <= x < 15 and 1 <= y < 7, and every point the
\* collision test has looked up has a column below 16 and a row in 0..7.
C10_StaysInside == /\ Interior(player_x, player_y)
                   /\ qres # "none" => InGrid(qx, qy)
                   /\ ~panicked

\* The collision test has looked up a cell of the solid border, and refused it.
C10_Witness == /\ frame > 0
               /\ qres = "true"
               /\ AsUsize(qx) = 0
               /\ Interior(player_x, player_y)

\* The heading change the flags f ask for.
TurnOf(f) == (IF f.left THEN STEP_SIZE ELSE 0) - (IF f.right THEN STEP_SIZE ELSE 0)

C2_Step(t) ==
    SolidAt(t[1], t[2]) =>
        /\ player_x' = player_x
        /\ player_y' = player_y
        /\ player_angle' = player_angle + TurnOf(args)

\* C2: when the tentative position of a State::update call is inside a wall,
\* both player_x and player_y keep their values from before the call, and the
\* heading is still moved by +STEP_SIZE for left and -STEP_SIZE for right.
C2_RollbackKeepsTurn ==
    [][frame' = frame + 1 =>
         C2_Step(Tentative(player_x, player_y, player_angle, args))]_vars

\* A diagonal move with a left turn was refused: both coordinates of the
\* tentative point differed from the position kept.
C2_Witness == /\ frame = 1
              /\ qres = "true"
              /\ args.up /\ ~args.down /\ args.left /\ ~args.right
              /\ qx # player_x
              /\ qy # player_y

\* The displacement of one forward step at heading a.
Forward(a) == <<Mul(cosf(a), STEP_SIZE), Mul(Neg(sinf(a)), STEP_SIZE)>>

\* The step is along one axis, and a full STEP_SIZE long.
Straight(d) == \/ Val(d[1]) = 0 /\ Abs(Val(d[2])) = STEP_SIZE
               \/ Val(d[2]) = 0 /\ Abs(Val(d[1])) = STEP_SIZE

\* From an interior point, the distance along the axis step d to the face of
\* the first solid cell ahead.
FaceDist(x, y, d) ==
    LET col == x \div ONE
        row == y \div ONE
    IN  IF Val(d[1]) > 0
        THEN (CHOOSE c \in (col + 1) .. (ROW_BITS - 1) :
                 Solid(c, row) /\ \A b \in (col + 1) .. (c - 1) : ~Solid(b, row)) * ONE - x
        ELSE IF Val(d[1]) < 0
        THEN x - ONE - (CHOOSE c \in 0 .. (col - 1) :
                 Solid(c, row) /\ \A b \in (c + 1) .. (col - 1) : ~Solid(b, row)) * ONE
        ELSE IF Val(d[2]) > 0
        THEN (CHOOSE r \in (row + 1) .. (ROWS - 1) :
                 Solid(col, r) /\ \A b \in (row + 1) .. (r - 1) : ~Solid(col, b)) * ONE - y
        ELSE y - ONE - (CHOOSE r \in 0 .. (row - 1) :
                 Solid(col, r) /\ \A b \in (r + 1) .. (row - 1) : ~Solid(col, b)) * ONE

OnlyUp(f) == f.up /\ ~f.down /\ ~f.left /\ ~f.right

C8_Moved(d) == /\ player_x' = player_x + Val(d[1])
               /\ player_y' = player_y + Val(d[2])

C8_Stayed == player_x' = player_x /\ player_y' = player_y

C8_Step(d, dist) ==
    /\ dist > STEP_SIZE => C8_Moved(d)
    /\ dist < STEP_SIZE => C8_Stayed
    /\ IF SolidAt(player_x + Val(d[1]), player_y + Val(d[2]))
       THEN C8_Stayed ELSE C8_Moved(d)

\* C8: with only the forward flag set and the player facing straight at a wall
\* face, State::update commits the step when the face is more than STEP_SIZE
\* away and refuses it when the face is less than STEP_SIZE away; the step is
\* committed exactly when the tentative cell is open.
C8_CollisionBoundary ==
    [][(frame' = frame + 1 /\ OnlyUp(args) /\ Straight(Forward(player_angle))) =>
          C8_Step(Forward(player_angle),
                  FaceDist(player_x, player_y, Forward(player_angle)))]_vars

\* A straight forward step toward a face less than STEP_SIZE away was refused.
C8_Witness == /\ frame = 1
              /\ OnlyUp(args)
              /\ Straight(Forward(player_angle))
              /\ qres = "true"
              /\ FaceDist(player_x, player_y, Forward(player_angle)) < STEP_SIZE
              /\ FaceDist(player_x, player_y, Forward(player_angle)) > 0

\* C3: point_in_wall returns true for every point whose column is 16 or more.
C3_ColumnsPastWidthAreWalls ==
    (qres # "none" /\ ~IsNaN(qx) /\ ~Lt(qx, ROW_BITS * ONE)) => qres = "true"

\* C4: point_in_wall returns true for every point whose row is below the first
\* row (y < 0) or past the last (y >= 8), whatever its column.
C4_RowsOutsideAreWalls ==
    (qres # "none" /\ ~IsNaN(qy) /\ (Lt(qy, 0) \/ ~Lt(qy, ROWS * ONE))) => qres = "true"

\* C5: every march, horizontal or vertical, leaves its loop because a sampled
\* cell is a wall.
C5_EveryRayEndsAtWall ==
    /\ h_cast.exit # "none" => h_cast.exit = "wall"
    /\ v_cast.exit # "none" => v_cast.exit = "wall"

\* A column has been written and nothing has panicked since.
Written == idx > 0 /\ ~panicked

\* C6: the distance turned into a height is the minimum of the two marches'
\* distances (neither is strictly below it); the shadow flag is true exactly
\* when that is the vertical march's distance, ties included, and false exactly
\* when the horizontal march's distance is strictly smaller.
C6_NearestAndShadow ==
    Written =>
        /\ wall[2] = ~Lt(h_cast.dist, v_cast.dist)
        /\ wall[2] => min_dist = v_cast.dist
        /\ ~wall[2] => min_dist = h_cast.dist
        /\ ~Lt(h_cast.dist, min_dist)
        /\ ~Lt(v_cast.dist, min_dist)
        /\ wall[1] = Height(min_dist, angle, player_angle)

\* A tie between two finite distances went to the vertical march.
C6_Witness == /\ Written
              /\ Ord(h_cast.dist)
              /\ h_cast.dist = v_cast.dist
              /\ h_cast.dist > 0
              /\ wall[2]

\* The ray angle the source's formula gives column i.
C7_Formula(i) == angle = player_angle + HALF_FOV - i * ANGLE_STEP

RECURSIVE Nth(_, _, _)
Nth(first, d, j) ==
    IF j = 0 THEN first
    ELSE IF Ord(first) /\ Ord(d) THEN Add(first, j * d)
    ELSE Add(Nth(first, d, j - 1), d)

\* Whether the sample at relative (nx, ny) is a wall, horizontal march.
HWallAt(px, py, up, nx, ny) ==
    point_in_wall(HSample(px, py, up, nx, ny)[1], HSample(px, py, up, nx, ny)[2])
VWallAt(px, py, right, nx, ny) ==
    point_in_wall(VSample(px, py, right, nx, ny)[1], VSample(px, py, right, nx, ny)[2])

\* c is the march that stops at the first wall among the samples
\* first + j * d, j = 0, 1, ..., or runs out of extensions.
C9_H(c, px, py, up, fx, fy, dx, dy) ==
    /\ c.exit = "wall" =>
          /\ c.x = Nth(fx, dx, c.steps) /\ c.y = Nth(fy, dy, c.steps)
          /\ HWallAt(px, py, up, c.x, c.y)
          /\ \A j \in 0 .. (c.steps - 1) :
                ~HWallAt(px, py, up, Nth(fx, dx, j), Nth(fy, dy, j))
    /\ c.exit = "budget" =>
          /\ c.steps = DRAW_DISTANCE
          /\ c.x = Nth(fx, dx, DRAW_DISTANCE) /\ c.y = Nth(fy, dy, DRAW_DISTANCE)
          /\ \A j \in 0 .. (DRAW_DISTANCE - 1) :
                ~HWallAt(px, py, up, Nth(fx, dx, j), Nth(fy, dy, j))
    /\ c.exit \in {"wall", "budget"} => c.dist = distance(c.x, c.y)

C9_V(c, px, py, right, fx, fy, dx, dy) ==
    /\ c.exit = "wall" =>
          /\ c.x = Nth(fx, dx, c.steps) /\ c.y = Nth(fy, dy, c.steps)
          /\ VWallAt(px, py, right, c.x, c.y)
          /\ \A j \in 0 .. (c.steps - 1) :
                ~VWallAt(px, py, right, Nth(fx, dx, j), Nth(fy, dy, j))
    /\ c.exit = "budget" =>
          /\ c.steps = DRAW_DISTANCE
          /\ c.x = Nth(fx, dx, DRAW_DISTANCE) /\ c.y = Nth(fy, dy, DRAW_DISTANCE)
          /\ \A j \in 0 .. (DRAW_DISTANCE - 1) :
                ~VWallAt(px, py, right, Nth(fx, dx, j), Nth(fy, dy, j))
    /\ c.exit \in {"wall", "budget"} => c.dist = distance(c.x, c.y)

C9_HAt(up, t) ==
    C9_H(h_cast, player_x, player_y, up,
         HFirstX(player_y, up, t), HFirstY(player_y, up), HDx(up, t), HDy(up))

C9_VAt(right, t) ==
    C9_V(v_cast, player_x, player_y, right,
         VFirstX(player_x, right), VFirstY(player_x, right, t),
         VDx(right), VDy(right, t))

\* C9: each march samples one cell per grid line, outward from the player, and
\* stops at the first sample that is a wall: the offset whose distance it
\* returns is a wall sample, every earlier sample was open, and only when none
\* of the 256 samples is a wall is it the first offset plus 256 deltas.
C9_StopsAtFirstWall ==
    /\ C9_HAt(OddHalfTurns(angle), tanf(angle))
    /\ C9_VAt(OddHalfTurns(Sub(angle, FRAC_PI_2)), tanf(angle))

\* Both marches of a column passed open samples before their wall.
C9_Witness == /\ Written
              /\ h_cast.exit = "wall" /\ h_cast.steps >= 2
              /\ v_cast.exit = "wall" /\ v_cast.steps >= 2


====
